---------------------------- MODULE Spec2Model ----------------------------
(***************************************************************************)
(* onionbell: a daemon that listens on Hyprland's event socket             *)
(* (.socket2.sock), and on every "bell" event asks Hyprland for its window *)
(* list (.socket.sock), matches the source window against the configured   *)
(* rules and plays the sound of the first matching rule.                   *)
(*                                                                         *)
(* Strings are sequences of code points, byte buffers are sequences of     *)
(* bytes (0..255), Option<T> is a sequence of length 0 (None) or 1         *)
(* (Some), and a volume is an f32 scaled by 100 (1.0 is 100).              *)
(***************************************************************************)
EXTENDS Integers, Sequences, FiniteSets, TLC

VARIABLES
    pc,             \* where the process is: "new", "connect", "awaiting",
                    \* "q_connect", "q_write", "q_read", "terminated", "exited"
    source,         \* the configuration file load_config has read: None
                    \* before App::new and when it cannot be opened or read
    config,         \* App.config
    sound_map,      \* App.sound_map: the paths whose data is cached
    decodable,      \* the sound files whose data rodio can decode
    sockbuf,        \* bytes the peer has written to socket2 and run has not read
    sockClosed,     \* the peer has closed socket2
    buffer,         \* get_event: buffer
    character_buf,  \* get_event: character_buf
    len,            \* get_event: len (0 while the first byte is awaited)
    consumed,       \* bytes the current call of get_event has taken from socket2
    data,           \* run: the payload of the bell event being handled
    dirConn,        \* the connection of get_clients: "none" or "open"
    mixer,          \* what play_sound has added to the mixer, in order
    nSent,          \* chunks the peer has written to socket2
    nLines,         \* lines get_event has returned
    nQueries,       \* calls of get_clients
    fault,          \* the latest failure of socket2: "none", "eof" (a read
                    \* returned Ok(0)), "read_err", "connect_err"
    ev              \* the latest iteration of run's loop

vars == <<pc, source, config, sound_map, decodable, sockbuf, sockClosed, buffer,
          character_buf, len, consumed, data, dirConn, mixer, nSent, nLines,
          nQueries, fault, ev>>

-----------------------------------------------------------------------------
(* Bounds of the model. *)

\* Lines the peer writes to socket2 in the dispatcher's specification.
MaxEvents == 2
\* Bytes the peer writes to socket2 in the decoder's specification.
MaxWire == 5
\* Bytes get_event accumulates while it spins on a closed socket2.
MaxLineBytes == 9

-----------------------------------------------------------------------------
(* Option, strings, bytes. *)

None == <<>>
Some(x) == <<x>>

Min(a, b) == IF a < b THEN a ELSE b

LF == \h0A
REPLACEMENT_CHARACTER == \hFFFD

\* "bell", ">>", "0x"
BellKind == <<98, 101, 108, 108>>
Delimiter == <<62, 62>>
AddressPrefix == <<48, 120>>

RECURSIVE BitAnd(_, _)
BitAnd(x, y) ==
    IF x = 0 \/ y = 0 THEN 0
    ELSE (x % 2) * (y % 2) + 2 * BitAnd(x \div 2, y \div 2)

starts_with(s, p) == Len(s) >= Len(p) /\ SubSeq(s, 1, Len(p)) = p

\* s[n..]
SliceFrom(s, n) == SubSeq(s, n + 1, Len(s))

\* mutation of split_once: without the delimiter the whole of s is the first
\* part
split_once_OrWhole(s, delim) ==
    LET hits == {i \in 1..(Len(s) - Len(delim) + 1) :
                     SubSeq(s, i, i + Len(delim) - 1) = delim}
    IN  IF hits = {} THEN Some([ev_type |-> s, data |-> <<>>])
        ELSE LET i == CHOOSE h \in hits : \A k \in hits : h <= k
             IN  Some([ev_type |-> SubSeq(s, 1, i - 1),
                       data |-> SubSeq(s, i + Len(delim), Len(s))])

\* str::split_once: the parts before and after the first occurrence of delim
split_once(s, delim) ==
    LET hits == {i \in 1..(Len(s) - Len(delim) + 1) :
                     SubSeq(s, i, i + Len(delim) - 1) = delim}
    IN  IF hits = {} THEN None
        ELSE LET i == CHOOSE h \in hits : \A k \in hits : h <= k
             IN  Some([ev_type |-> SubSeq(s, 1, i - 1),
                       data |-> SliceFrom(s, i + Len(delim) - 1)])

-----------------------------------------------------------------------------
(* String::from_utf8_lossy: every maximal invalid part of the input becomes *)
(* one U+FFFD, everything else is decoded.                                  *)

\* the byte at index i (from 1), 0 past the end
safe_get(s, i) == IF i <= Len(s) THEN s[i] ELSE 0

IsCont(b) == BitAnd(b, 192) = 128

utf8_char_width(b) ==
    IF b < \h80 THEN 1
    ELSE IF b >= \hC2 /\ b <= \hDF THEN 2
    ELSE IF b >= \hE0 /\ b <= \hEF THEN 3
    ELSE IF b >= \hF0 /\ b <= \hF4 THEN 4
    ELSE 0

\* the second byte a 3-byte or 4-byte character may have after first byte b
SecondOk(b, c) ==
    \/ b = \hE0 /\ c >= \hA0 /\ c <= \hBF
    \/ b >= \hE1 /\ b <= \hEC /\ c >= \h80 /\ c <= \hBF
    \/ b = \hED /\ c >= \h80 /\ c <= \h9F
    \/ b >= \hEE /\ b <= \hEF /\ c >= \h80 /\ c <= \hBF
    \/ b = \hF0 /\ c >= \h90 /\ c <= \hBF
    \/ b >= \hF1 /\ b <= \hF3 /\ c >= \h80 /\ c <= \hBF
    \/ b = \hF4 /\ c >= \h80 /\ c <= \h8F

\* the first chunk of s (not empty): the code point it decodes to and the
\* number of bytes it takes
Utf8Chunk(s) ==
    LET b == s[1]
        w == utf8_char_width(b)
        bad(n) == [cp |-> REPLACEMENT_CHARACTER, n |-> n]
    IN  IF w = 1 THEN [cp |-> b, n |-> 1]
        ELSE IF w = 2 THEN
            IF IsCont(safe_get(s, 2))
            THEN [cp |-> (b - \hC0) * 64 + (s[2] - \h80), n |-> 2]
            ELSE bad(1)
        ELSE IF w = 3 THEN
            IF ~SecondOk(b, safe_get(s, 2)) THEN bad(1)
            ELSE IF ~IsCont(safe_get(s, 3)) THEN bad(2)
            ELSE [cp |-> (b - \hE0) * 4096 + (s[2] - \h80) * 64 + (s[3] - \h80),
                  n |-> 3]
        ELSE IF w = 4 THEN
            IF ~SecondOk(b, safe_get(s, 2)) THEN bad(1)
            ELSE IF ~IsCont(safe_get(s, 3)) THEN bad(2)
            ELSE IF ~IsCont(safe_get(s, 4)) THEN bad(3)
            ELSE [cp |-> (b - \hF0) * 262144 + (s[2] - \h80) * 4096
                          + (s[3] - \h80) * 64 + (s[4] - \h80),
                  n |-> 4]
        ELSE bad(1)

RECURSIVE from_utf8_lossy(_)
from_utf8_lossy(s) ==
    IF s = <<>> THEN <<>>
    ELSE LET c == Utf8Chunk(s)
         IN  <<c.cp>> \o from_utf8_lossy(SliceFrom(s, c.n))

-----------------------------------------------------------------------------
(* config.rs: Config, Rule, WorkspaceRule, and the volume check of          *)
(* serde_helpers.rs.  A configuration source is the configuration file as   *)
(* written: a volume is there or not, and is not validated yet.             *)

default_volume == 100

\* mutation of validate_volume: every value is accepted
validate_volume_Unchecked(x) == Some(x)

\* validate_volume: (0.0..=1.0).contains(&x)
validate_volume(x) == IF 0 <= x /\ x <= 100 THEN Some(x) ELSE None

\* a volume field: #[serde(default = "default_volume",
\*                         deserialize_with = "validate_volume")]
VolumeField(raw) == IF raw = None THEN Some(default_volume) ELSE validate_volume(raw[1])

WorkspaceId(id) == [tag |-> "Id", id |-> id, name |-> <<>>]
WorkspaceName(name) == [tag |-> "Name", id |-> 0, name |-> name]

\* Rule::default() and Config::default(): every Option is None, rules is
\* empty, and the f32 volume is 0.0
RuleDefault ==
    [sound |-> None, volume |-> 0, workspace |-> None, floating |-> None,
     class_regex |-> None, title_regex |-> None, xwayland |-> None]

ConfigDefault == [sound |-> None, volume |-> 0, rules |-> <<>>]

\* the deserialization of one [[rule]] table
RuleFromSource(raw) ==
    LET v == VolumeField(raw.volume)
    IN  IF v = None THEN None
        ELSE Some([raw EXCEPT !.volume = v[1]])

\* mutation of from_source: a rule whose volume is rejected gets the default
\* volume
from_source_RuleVolumeDefaulted(raw) ==
    LET v == VolumeField(raw.volume)
        rs == [i \in 1..Len(raw.rules) |-> RuleFromSource(raw.rules[i])]
    IN  IF v = None THEN None
        ELSE Some([sound |-> raw.sound, volume |-> v[1],
                   rules |-> [i \in 1..Len(raw.rules) |->
                                 IF rs[i] = None
                                 THEN [raw.rules[i] EXCEPT !.volume = default_volume]
                                 ELSE rs[i][1]]])

\* Config::from_source: an error (None) as soon as one volume is rejected
from_source(raw) ==
    LET v == VolumeField(raw.volume)
        rs == [i \in 1..Len(raw.rules) |-> RuleFromSource(raw.rules[i])]
    IN  IF v = None \/ \E i \in 1..Len(raw.rules) : rs[i] = None THEN None
        ELSE Some([sound |-> raw.sound, volume |-> v[1],
                   rules |-> [i \in 1..Len(raw.rules) |-> rs[i][1]]])

\* App::load_config: the file cannot be opened or read (None), or it is
\* deserialized
load_config(file) == IF file = None THEN None ELSE from_source(file[1])

\* mutation of LoadedConfig: a file that is rejected keeps its global sound
LoadedConfigKeepsSound(file) ==
    LET r == load_config(file)
    IN  IF r # None THEN r[1]
        ELSE IF file = None THEN ConfigDefault
        ELSE [ConfigDefault EXCEPT !.sound = file[1].sound]

\* App::new: Self::load_config().unwrap_or_else(|err| Config::default())
LoadedConfig(file) ==
    LET r == load_config(file)
    IN  IF r = None THEN ConfigDefault ELSE r[1]

\* App::init_audio: the paths it tries to load, config.sound and the sound of
\* every rule
SoundPaths(c) ==
    {c.sound[i] : i \in 1..Len(c.sound)}
        \cup UNION {{c.rules[k].sound[i] : i \in 1..Len(c.rules[k].sound)} :
                        k \in 1..Len(c.rules)}

-----------------------------------------------------------------------------
(* hypr.rs: HyprClient::match_rule.  A regular expression is a literal with *)
(* optional ^ and $ anchors; is_match searches it anywhere in the text.     *)

is_match(re, text) ==
    \E i \in 1..(Len(text) - Len(re.lit) + 1) :
        /\ SubSeq(text, i, i + Len(re.lit) - 1) = re.lit
        /\ re.anchor_start => i = 1
        /\ re.anchor_end => i + Len(re.lit) - 1 = Len(text)

\* mutation of FindClient: an address without "0x" is compared as a whole
RECURSIVE FindClientWholeAddress(_, _, _)
FindClientWholeAddress(clients, d, i) ==
    IF i > Len(clients) THEN 0
    ELSE IF ~starts_with(clients[i].address, AddressPrefix)
         THEN IF clients[i].address = d THEN i
              ELSE FindClientWholeAddress(clients, d, i + 1)
    ELSE IF SliceFrom(clients[i].address, 2) = d THEN i
    ELSE FindClientWholeAddress(clients, d, i + 1)

\* the loop over clients: the index of the first client whose address starts
\* with "0x" and continues with data, 0 when there is none
RECURSIVE FindClient(_, _, _)
FindClient(clients, d, i) ==
    IF i > Len(clients) THEN 0
    ELSE IF ~starts_with(clients[i].address, AddressPrefix)
         THEN FindClient(clients, d, i + 1)
    ELSE IF SliceFrom(clients[i].address, 2) = d THEN i
    ELSE FindClient(clients, d, i + 1)

\* mutation of WorkspaceMatches: a name is also compared with the id, written
\* in decimal (one digit)
WorkspaceMatchesIdAsName(workspace, client) ==
    IF workspace.tag = "Id" THEN client.workspace.id = workspace.id
    ELSE \/ client.workspace.name = workspace.name
         \/ <<48 + client.workspace.id>> = workspace.name

\* match workspace { Id(id) => .., Name(name) => .. }
WorkspaceMatches(workspace, client) ==
    IF workspace.tag = "Id" THEN client.workspace.id = workspace.id
    ELSE client.workspace.name = workspace.name

\* mutation of Accumulate: the xwayland predicate reads client.floating
AccumulateWrongField(client, rule) ==
    LET a1 == IF rule.workspace # None
              THEN WorkspaceMatches(rule.workspace[1], client) ELSE TRUE
        a2 == IF rule.floating # None
              THEN a1 /\ (client.floating = rule.floating[1]) ELSE a1
        a3 == IF rule.xwayland # None
              THEN a2 /\ (client.floating = rule.xwayland[1]) ELSE a2
        a4 == IF rule.class_regex # None
              THEN a3 /\ is_match(rule.class_regex[1], client.class) ELSE a3
        a5 == IF rule.title_regex # None
              THEN a4 /\ is_match(rule.title_regex[1], client.title) ELSE a4
    IN  a5

\* the accumulator after the five optional predicates
Accumulate(client, rule) ==
    LET a0 == TRUE
        a1 == IF rule.workspace # None
              THEN a0 /\ WorkspaceMatches(rule.workspace[1], client) ELSE a0
        a2 == IF rule.floating # None
              THEN a1 /\ (client.floating = rule.floating[1]) ELSE a1
        a3 == IF rule.xwayland # None
              THEN a2 /\ (client.xwayland = rule.xwayland[1]) ELSE a2
        a4 == IF rule.class_regex # None
              THEN a3 /\ is_match(rule.class_regex[1], client.class) ELSE a3
        a5 == IF rule.title_regex # None
              THEN a4 /\ is_match(rule.title_regex[1], client.title) ELSE a4
    IN  a5

\* mutation of match_rule: the accumulator, TRUE at first, is returned when
\* no client is found
match_rule_NotFoundAccumulator(clients, d, rule) ==
    LET c == FindClient(clients, d, 1)
    IN  IF c = 0 THEN TRUE ELSE Accumulate(clients[c], rule)

match_rule(clients, d, rule) ==
    LET c == FindClient(clients, d, 1)
    IN  IF c = 0 THEN FALSE ELSE Accumulate(clients[c], rule)

\* mutation of RuleLoop: the loop without its break, the last match wins
RECURSIVE RuleLoopNoBreak(_, _, _, _)
RuleLoopNoBreak(clients, d, rules, i) ==
    IF i > Len(rules) THEN 0
    ELSE LET later == RuleLoopNoBreak(clients, d, rules, i + 1)
         IN  IF later # 0 THEN later
             ELSE IF match_rule(clients, d, rules[i]) THEN i
             ELSE 0

\* run: the loop over config.rules with its break: the index of the rule
\* adopted, 0 when the loop ends without a match
RECURSIVE RuleLoop(_, _, _, _)
RuleLoop(clients, d, rules, i) ==
    IF i > Len(rules) THEN 0
    ELSE IF match_rule(clients, d, rules[i]) THEN i
    ELSE RuleLoop(clients, d, rules, i + 1)

-----------------------------------------------------------------------------
(* app.rs: App::get_event, one step per read of socket2.                    *)

\* mutation of CharLen: the first arm tests the high bit alone
CharLenHighBit(x) == IF BitAnd(x, \h80) = \h80 THEN 2 ELSE 1

\* the match on character_buf[0]: the arms are tried in order
CharLen(x) ==
    IF BitAnd(x, \hC0) = \hC0 THEN 2
    ELSE IF BitAnd(x, \hE0) = \hE0 THEN 3
    ELSE IF BitAnd(x, \hF0) = \hF0 THEN 4
    ELSE 1

ZeroBuf == <<0, 0, 0, 0>>

\* socket.read(&mut b[from..to]) into cb (indices from 0, to excluded) when n
\* bytes are delivered: the bytes of cb past the n delivered keep their value
ReadInto(cb, from, n) ==
    [i \in 1..4 |-> IF from < i /\ i <= from + n THEN sockbuf[i - from] ELSE cb[i]]

NoEvent ==
    [line |-> <<>>, consumed |-> <<>>, kind |-> "none", query |-> "none",
     clients |-> <<>>, matched |-> 0, volume |-> None, handoff |-> None,
     played |-> FALSE, removed |-> FALSE]

\* mutation of IsBell: the kind only has to end with "bell"
IsBellSuffix(ev_type) ==
    /\ Len(ev_type) >= Len(BellKind)
    /\ SubSeq(ev_type, Len(ev_type) - Len(BellKind) + 1, Len(ev_type)) = BellKind

\* run: the arm "bell" of the match on ev_type
IsBell(ev_type) == ev_type = BellKind

\* run, from the return of get_event to the call of get_clients or to the
\* next iteration
Dispatch(line, cons) ==
    LET sp == split_once(line, Delimiter)
        e == [NoEvent EXCEPT !.line = line, !.consumed = cons]
    IN  /\ nLines' = nLines + 1
        /\ IF sp = None
           THEN /\ ev' = [e EXCEPT !.kind = "skip"]
                /\ UNCHANGED <<pc, data, nQueries>>
           ELSE IF IsBell(sp[1].ev_type)
           THEN /\ ev' = [e EXCEPT !.kind = "bell", !.query = "pending"]
                /\ pc' = "q_connect"
                /\ data' = sp[1].data
                /\ nQueries' = nQueries + 1
           ELSE /\ ev' = [e EXCEPT !.kind = "ignored"]
                /\ UNCHANGED <<pc, data, nQueries>>

\* mutation of EndOfCharacter: a 0x0A anywhere in the character ends the line
EndOfCharacterAnyLF(cb, l, cons) ==
    IF \E i \in 1..l : cb[i] = LF
    THEN /\ buffer' = <<>>
         /\ consumed' = <<>>
         /\ Dispatch(from_utf8_lossy(
                         IF cb[1] = LF THEN buffer ELSE Append(buffer, cb[1])), cons)
    ELSE /\ buffer' = buffer \o SubSeq(cb, 1, l)
         /\ consumed' = cons
         /\ UNCHANGED <<pc, data, nQueries, nLines, ev>>

\* get_event after the bytes of one character are read: the end of the line,
\* or one more character in buffer
EndOfCharacter(cb, l, cons) ==
    IF SubSeq(cb, 1, l) = <<LF>>
    THEN /\ buffer' = <<>>
         /\ consumed' = <<>>
         /\ Dispatch(from_utf8_lossy(buffer), cons)
    ELSE /\ buffer' = buffer \o SubSeq(cb, 1, l)
         /\ consumed' = cons
         /\ UNCHANGED <<pc, data, nQueries, nLines, ev>>

\* the length of the slice the next read of get_event is given:
\* character_buf[0..1] for the first byte, character_buf[1..len] for the rest
ReadRequest == IF len = 0 THEN 1 ELSE len - 1

\* mutation of ReadFirst: the rest of the character is read without the test
\* len > 1
ReadFirstThenRestAlways ==
    /\ pc = "awaiting"
    /\ len = 0
    /\ sockbuf # <<>>
    /\ sockbuf' = Tail(sockbuf)
    /\ character_buf' = ReadInto(ZeroBuf, 0, 1)
    /\ len' = CharLen(Head(sockbuf))
    /\ consumed' = Append(consumed, Head(sockbuf))
    /\ UNCHANGED <<source, config, sound_map, decodable, sockClosed, dirConn,
                   mixer, nSent, buffer, pc, data, nQueries, nLines, ev, fault>>

\* socket.read(&mut character_buf[0..1])?, returning Ok: one byte, or none at
\* the end of the stream (the count read returns is not looked at)
ReadFirst ==
    /\ pc = "awaiting"
    /\ len = 0
    /\ sockbuf # <<>> \/ sockClosed
    /\ LET n == Min(ReadRequest, Len(sockbuf))
           cb == ReadInto(ZeroBuf, 0, n)
           l == CharLen(cb[1])
           cons == consumed \o SubSeq(sockbuf, 1, n)
       IN  /\ n = 0 => Len(buffer) < MaxLineBytes
           /\ sockbuf' = SliceFrom(sockbuf, n)
           /\ fault' = IF n = 0 THEN "eof" ELSE fault
           /\ IF l > 1
              THEN /\ character_buf' = cb
                   /\ len' = l
                   /\ consumed' = cons
                   /\ UNCHANGED <<buffer, pc, data, nQueries, nLines, ev>>
              ELSE /\ character_buf' = ZeroBuf
                   /\ len' = 0
                   /\ EndOfCharacter(cb, l, cons)
    /\ UNCHANGED <<source, config, sound_map, decodable, sockClosed, dirConn, mixer, nSent>>

\* socket.read(&mut character_buf[1..len])?, returning Ok: as many of the
\* len - 1 bytes as socket2 holds, or none at the end of the stream
ReadRest ==
    /\ pc = "awaiting"
    /\ len > 1
    /\ sockbuf # <<>> \/ sockClosed
    /\ LET n == Min(ReadRequest, Len(sockbuf))
           cb == ReadInto(character_buf, 1, n)
       IN  /\ n = 0 => Len(buffer) < MaxLineBytes
           /\ sockbuf' = SliceFrom(sockbuf, n)
           /\ fault' = IF n = 0 THEN "eof" ELSE fault
           /\ character_buf' = ZeroBuf
           /\ len' = 0
           /\ EndOfCharacter(cb, len, consumed \o SubSeq(sockbuf, 1, n))
    /\ UNCHANGED <<source, config, sound_map, decodable, sockClosed, dirConn, mixer, nSent>>

\* mutation of ReadErr: the error ends the line, and get_event returns what
\* it has read
ReadErrPartialLine ==
    /\ pc = "awaiting"
    /\ fault' = "read_err"
    /\ buffer' = <<>>
    /\ consumed' = <<>>
    /\ character_buf' = ZeroBuf
    /\ len' = 0
    /\ Dispatch(from_utf8_lossy(buffer), consumed)
    /\ UNCHANGED <<source, config, sound_map, decodable, sockbuf, sockClosed, dirConn,
                   mixer, nSent>>

\* either read returning Err: get_event returns it, and run returns it (the
\* locals of get_event are dead from here on and keep their last value)
ReadErr ==
    /\ pc = "awaiting"
    /\ pc' = "terminated"
    /\ fault' = "read_err"
    /\ UNCHANGED <<source, config, sound_map, decodable, sockbuf, sockClosed, buffer,
                   character_buf, len, consumed, data, dirConn, mixer, nSent,
                   nLines, nQueries, ev>>

-----------------------------------------------------------------------------
(* app.rs: App::run on a bell event, one step per operation of              *)
(* HyprClient::get_clients on its own connection, and App::play_sound.      *)

\* mutation of Outcome: a matched rule without a sound falls back to the
\* global sound
OutcomeFlattened(result) ==
    LET m == IF result = None THEN 0
             ELSE RuleLoop(result[1], data, config.rules, 1)
    IN  [matched |-> m,
         sfx_path |-> IF m = 0 \/ config.rules[m].sound = None THEN config.sound
                      ELSE config.rules[m].sound,
         volume |-> IF m = 0 THEN config.volume ELSE config.rules[m].volume]

\* mutation of Outcome: the volume is always the global volume
OutcomeGlobalVolume(result) ==
    LET m == IF result = None THEN 0
             ELSE RuleLoop(result[1], data, config.rules, 1)
    IN  [matched |-> m,
         sfx_path |-> IF m = 0 THEN config.sound ELSE config.rules[m].sound,
         volume |-> config.volume]

\* run: sfx_path and volume after the match on the result of get_clients
\* (result is None for Err, Some(clients) for Ok), and the rule adopted
Outcome(result) ==
    LET m == IF result = None THEN 0
             ELSE RuleLoop(result[1], data, config.rules, 1)
        sfx_path == IF m = 0 THEN None ELSE Some(config.rules[m].sound)
        volume == IF m = 0 THEN None ELSE Some(config.rules[m].volume)
    IN  [matched |-> m,
         sfx_path |-> IF sfx_path = None THEN config.sound ELSE sfx_path[1],
         volume |-> IF volume = None THEN config.volume ELSE volume[1]]

\* mutation of PlaySound: the decoded sound is added to the mixer twice
PlaySoundTwice(sfx_path, volume) ==
    IF sfx_path \in sound_map
    THEN IF sfx_path \in decodable
         THEN /\ mixer' = mixer \o <<[path |-> sfx_path, volume |-> volume],
                                     [path |-> sfx_path, volume |-> volume]>>
              /\ UNCHANGED sound_map
         ELSE /\ sound_map' = sound_map \ {sfx_path}
              /\ UNCHANGED mixer
    ELSE UNCHANGED <<mixer, sound_map>>

\* mutation of PlaySound: a path that is not cached is read again and cached
PlaySoundReloads(sfx_path, volume) ==
    IF sfx_path \in sound_map
    THEN IF sfx_path \in decodable
         THEN /\ mixer' = Append(mixer, [path |-> sfx_path, volume |-> volume])
              /\ UNCHANGED sound_map
         ELSE /\ sound_map' = sound_map \ {sfx_path}
              /\ UNCHANGED mixer
    ELSE /\ sound_map' = sound_map \cup {sfx_path}
         /\ UNCHANGED mixer

\* play_sound: the cached data is decoded and added to the mixer, or dropped
\* from the cache when it does not decode; a path not cached does nothing
PlaySound(sfx_path, volume) ==
    IF sfx_path \in sound_map
    THEN IF sfx_path \in decodable
         THEN /\ mixer' = Append(mixer, [path |-> sfx_path, volume |-> volume])
              /\ UNCHANGED sound_map
         ELSE /\ sound_map' = sound_map \ {sfx_path}
              /\ UNCHANGED mixer
    ELSE UNCHANGED <<mixer, sound_map>>

Played(sfx_path) == sfx_path \in sound_map /\ sfx_path \in decodable

\* play_sound: the Err arm of Decoder::try_from, self.sound_map.remove
Removed(sfx_path) == sfx_path \in sound_map /\ sfx_path \notin decodable

\* mutation of Resolve: the connection of get_clients is not dropped
ResolveLeavesOpen(result, how) ==
    LET o == Outcome(result)
    IN  /\ IF o.sfx_path # None
           THEN PlaySound(o.sfx_path[1], o.volume)
           ELSE UNCHANGED <<mixer, sound_map>>
        /\ ev' = [ev EXCEPT !.query = how,
                            !.clients = IF result = None THEN <<>> ELSE result[1],
                            !.matched = o.matched,
                            !.volume = Some(o.volume),
                            !.handoff = IF o.sfx_path = None THEN None
                                        ELSE Some([path |-> o.sfx_path[1],
                                                   volume |-> o.volume]),
                            !.played = o.sfx_path # None /\ Played(o.sfx_path[1]),
                            !.removed = o.sfx_path # None /\ Removed(o.sfx_path[1])]
        /\ pc' = "awaiting"
        /\ UNCHANGED <<source, config, decodable, sockbuf, sockClosed, buffer,
                       character_buf, len, consumed, data, dirConn, nSent,
                       nLines, nQueries, fault>>

\* run, from the return of get_clients to the next iteration of the loop
Resolve(result, how) ==
    LET o == Outcome(result)
    IN  /\ IF o.sfx_path # None
           THEN PlaySound(o.sfx_path[1], o.volume)
           ELSE UNCHANGED <<mixer, sound_map>>
        /\ ev' = [ev EXCEPT !.query = how,
                            !.clients = IF result = None THEN <<>> ELSE result[1],
                            !.matched = o.matched,
                            !.volume = Some(o.volume),
                            !.handoff = IF o.sfx_path = None THEN None
                                        ELSE Some([path |-> o.sfx_path[1],
                                                   volume |-> o.volume]),
                            !.played = o.sfx_path # None /\ Played(o.sfx_path[1]),
                            !.removed = o.sfx_path # None /\ Removed(o.sfx_path[1])]
        /\ pc' = "awaiting"
        /\ dirConn' = "none"
        /\ UNCHANGED <<source, config, decodable, sockbuf, sockClosed, buffer,
                       character_buf, len, consumed, data, nSent, nLines,
                       nQueries, fault>>

\* UnixStream::connect(socket)?
DirConnectOk ==
    /\ pc = "q_connect"
    /\ pc' = "q_write"
    /\ dirConn' = "open"
    /\ UNCHANGED <<source, config, sound_map, decodable, sockbuf, sockClosed, buffer,
                   character_buf, len, consumed, data, mixer, nSent, nLines,
                   nQueries, fault, ev>>

\* mutation of DirConnectErr: the error of the connect is returned from run
DirConnectErrFatal ==
    /\ pc = "q_connect"
    /\ pc' = "terminated"
    /\ UNCHANGED <<source, config, sound_map, decodable, sockbuf, sockClosed,
                   buffer, character_buf, len, consumed, data, dirConn, mixer,
                   nSent, nLines, nQueries, fault, ev>>

\* UnixStream::connect(socket)? returning Err: get_clients returns it
DirConnectErr ==
    /\ pc = "q_connect"
    /\ Resolve(None, "connect_err")

\* write!(socket, "-j/clients")?
DirWriteOk ==
    /\ pc = "q_write"
    /\ pc' = "q_read"
    /\ UNCHANGED <<source, config, sound_map, decodable, sockbuf, sockClosed, buffer,
                   character_buf, len, consumed, data, dirConn, mixer, nSent,
                   nLines, nQueries, fault, ev>>

\* mutation of DirWriteErr: get_clients is called again after the error
DirWriteErrRetry ==
    /\ pc = "q_write"
    /\ nQueries <= MaxEvents
    /\ pc' = "q_connect"
    /\ dirConn' = "none"
    /\ nQueries' = nQueries + 1
    /\ UNCHANGED <<source, config, sound_map, decodable, sockbuf, sockClosed,
                   buffer, character_buf, len, consumed, data, mixer, nSent,
                   nLines, fault, ev>>

\* write!(socket, "-j/clients")? returning Err: get_clients returns it
DirWriteErr ==
    /\ pc = "q_write"
    /\ Resolve(None, "write_err")

\* socket.read_to_string(&mut buf)? returning Ok, the connection dropped, and
\* serde_json::from_str(&response): the response is a JSON array of clients
\* (Some) or does not deserialize (None)
DirReadOk(Responses) ==
    /\ pc = "q_read"
    /\ \E response \in Responses :
           Resolve(response, IF response = None THEN "json_err" ELSE "ok")

\* mutation of DirReadErr: the error of get_clients is returned from run
DirReadErrFatal ==
    /\ pc = "q_read"
    /\ pc' = "terminated"
    /\ dirConn' = "none"
    /\ UNCHANGED <<source, config, sound_map, decodable, sockbuf, sockClosed, buffer,
                   character_buf, len, consumed, data, mixer, nSent, nLines,
                   nQueries, fault, ev>>

\* mutation of DirReadErr: get_clients connects again after the error
DirReadErrReconnect ==
    /\ pc = "q_read"
    /\ pc' = "q_connect"
    /\ dirConn' = "none"
    /\ UNCHANGED <<source, config, sound_map, decodable, sockbuf, sockClosed,
                   buffer, character_buf, len, consumed, data, mixer, nSent,
                   nLines, nQueries, fault, ev>>

\* socket.read_to_string(&mut buf)? returning Err: get_clients returns it
DirReadErr ==
    /\ pc = "q_read"
    /\ Resolve(None, "read_err")

-----------------------------------------------------------------------------
(* main.rs and App::new, UnixStream::connect of run, and the peer of        *)
(* socket2.                                                                 *)

\* App::new returning Ok: the configuration is loaded (or the default taken),
\* and init_audio caches the sound files that can be read
AppNew(Files) ==
    /\ pc = "new"
    /\ \E file \in Files :
           LET c == LoadedConfig(file)
           IN  /\ source' = file
               /\ config' = c
               /\ \E readable \in SUBSET SoundPaths(c) :
                      /\ sound_map' = readable
                      /\ \E good \in SUBSET readable : decodable' = good
    /\ pc' = "connect"
    /\ UNCHANGED <<sockbuf, sockClosed, buffer, character_buf, len, consumed,
                   data, dirConn, mixer, nSent, nLines, nQueries, fault, ev>>

\* App::new returning Err (init_hyprland_socket_path or init_audio): main
\* returns ExitCode::FAILURE
AppNewErr ==
    /\ pc = "new"
    /\ pc' = "exited"
    /\ UNCHANGED <<source, config, sound_map, decodable, sockbuf, sockClosed, buffer,
                   character_buf, len, consumed, data, dirConn, mixer, nSent,
                   nLines, nQueries, fault, ev>>

\* run: UnixStream::connect(&self.socket2_path)?
ConnectOk ==
    /\ pc = "connect"
    /\ pc' = "awaiting"
    /\ UNCHANGED <<source, config, sound_map, decodable, sockbuf, sockClosed, buffer,
                   character_buf, len, consumed, data, dirConn, mixer, nSent,
                   nLines, nQueries, fault, ev>>

ConnectErr ==
    /\ pc = "connect"
    /\ pc' = "terminated"
    /\ fault' = "connect_err"
    /\ UNCHANGED <<source, config, sound_map, decodable, sockbuf, sockClosed, buffer,
                   character_buf, len, consumed, data, dirConn, mixer, nSent,
                   nLines, nQueries, ev>>

Connected == pc \in {"awaiting", "q_connect", "q_write", "q_read"}

\* the peer writes a chunk, of at most max in all, while socket2 holds at
\* most room unread bytes
PeerSend(Chunks, max, room) ==
    /\ Connected
    /\ ~sockClosed
    /\ Len(sockbuf) <= room
    /\ nSent < max
    /\ \E chunk \in Chunks : sockbuf' = sockbuf \o chunk
    /\ nSent' = nSent + 1
    /\ UNCHANGED <<pc, source, config, sound_map, decodable, sockClosed, buffer,
                   character_buf, len, consumed, data, dirConn, mixer, nLines,
                   nQueries, fault, ev>>

\* the peer closes socket2
PeerClose ==
    /\ Connected
    /\ ~sockClosed
    /\ sockClosed' = TRUE
    /\ UNCHANGED <<pc, source, config, sound_map, decodable, sockbuf, buffer,
                   character_buf, len, consumed, data, dirConn, mixer, nSent,
                   nLines, nQueries, fault, ev>>

-----------------------------------------------------------------------------
(* The inputs: configuration files, window lists, and what the peer writes. *)

Regex(anchor_start, lit, anchor_end) ==
    [anchor_start |-> anchor_start, lit |-> lit, anchor_end |-> anchor_end]

\* "QQ", "t", "3", "foo"
StrQQ == <<81, 81>>
StrT == <<116>>
Str3 == <<51>>
StrFoo == <<102, 111, 111>>

\* [[rule]] tables as written in a configuration file
SrcRuleWs3 ==
    [RuleDefault EXCEPT !.sound = Some("S2"), !.volume = Some(80),
                        !.workspace = Some(WorkspaceId(3))]
SrcRuleSilent == [RuleDefault EXCEPT !.volume = None]
SrcRuleClass ==
    [RuleDefault EXCEPT !.sound = Some("S1"), !.volume = Some(50),
                        !.floating = Some(FALSE),
                        !.class_regex = Some(Regex(TRUE, StrQQ, FALSE))]
SrcRuleTooLoud == [RuleDefault EXCEPT !.sound = Some("S2"), !.volume = Some(101)]

RuleTables ==
    {<<>>, <<SrcRuleWs3>>, <<SrcRuleSilent>>, <<SrcRuleWs3, SrcRuleSilent>>,
     <<SrcRuleSilent, SrcRuleWs3>>, <<SrcRuleClass, SrcRuleWs3>>,
     <<SrcRuleWs3, SrcRuleClass>>, <<SrcRuleClass, SrcRuleSilent, SrcRuleWs3>>,
     <<SrcRuleWs3, SrcRuleTooLoud>>}

\* the configuration file: unreadable (None), or its content
ConfigFiles ==
    {None} \cup
    {Some([sound |-> s, volume |-> v, rules |-> r]) :
        s \in {None, Some("S1")}, v \in {None, Some(30), Some(-10)},
        r \in RuleTables}

\* "0xa", "0xb", "a"
WinA ==
    [address |-> <<48, 120, 97>>, workspace |-> [id |-> 3, name |-> Str3],
     floating |-> FALSE, xwayland |-> FALSE, class |-> StrQQ, title |-> StrT]
WinB ==
    [address |-> <<48, 120, 98>>, workspace |-> [id |-> 4, name |-> StrFoo],
     floating |-> TRUE, xwayland |-> TRUE, class |-> StrT, title |-> StrQQ]
WinNoPrefix == [WinA EXCEPT !.address = <<97>>]
WinFloating == [WinA EXCEPT !.floating = TRUE]

\* what get_clients reads: a response that does not deserialize (None), or
\* the clients of a response that does
Responses ==
    {None} \cup
    {Some(cl) : cl \in {<<>>, <<WinA>>, <<WinB, WinA>>, <<WinFloating, WinA>>,
                        <<WinNoPrefix>>, <<WinNoPrefix, WinB>>}}

\* "bell>>a", "bell>>b", U+00E9 (C3 A9) then ">>a", "bell"
EventLines ==
    {BellKind \o Delimiter \o <<97>>, BellKind \o Delimiter \o <<98>>,
     <<\hC3, \hA9>> \o Delimiter \o <<97>>, BellKind}

\* whole lines, and the start of a line ("b") the peer may stop after
EventChunks == {line \o <<LF>> : line \in EventLines} \cup {<<98>>}

\* LF, "a", the bytes of U+00E9 (C3 A9), U+3A69 (E3 A9 A9) and U+29A69
\* (F0 A9 A9 A9)
DecoderBytes == {LF, 97, \hC3, \hA9, \hE3, \hF0}
ByteChunks == {<<b>> : b \in DecoderBytes}

\* "tQQ", "tQ"
StrTQQ == <<116, 81, 81>>
StrTQ == <<116, 81>>

\* the inputs of match_rule: every combination of the five predicates, each
\* absent or present in two or more ways
OptBool == {None, Some(TRUE), Some(FALSE)}
OptRegex == {None, Some(Regex(TRUE, StrQQ, FALSE)), Some(Regex(FALSE, StrTQ, FALSE))}
OptWorkspace ==
    {None, Some(WorkspaceId(3)), Some(WorkspaceId(4)), Some(WorkspaceName(Str3)),
     Some(WorkspaceName(StrFoo))}

MatchRules ==
    {[sound |-> Some("S2"), volume |-> 80, workspace |-> w, floating |-> f,
      xwayland |-> x, class_regex |-> c, title_regex |-> t] :
        w \in OptWorkspace, f \in OptBool, x \in OptBool, c \in OptRegex,
        t \in OptRegex}

MatchWindows ==
    {[address |-> a, workspace |-> [id |-> i, name |-> n], floating |-> f,
      xwayland |-> x, class |-> c, title |-> t] :
        a \in {<<48, 120, 97>>, <<48, 120, 98>>, <<97>>}, i \in {3, 4},
        n \in {Str3, StrFoo}, f \in BOOLEAN, x \in BOOLEAN,
        c \in {StrQQ, StrTQQ}, t \in {StrQQ, StrTQQ}}

MatchResponses ==
    {None} \cup {Some(<<w>>) : w \in MatchWindows}
           \cup {Some(<<v, w>>) : v \in {WinNoPrefix, WinB, WinFloating},
                                  w \in MatchWindows}

\* the volumes of a configuration file: absent, 0.0, 1.0, 1.01, -0.1, 100.0
\* and 0.5
SrcVolumes == {None, Some(0), Some(100), Some(101), Some(-10), Some(10000), Some(50)}
SrcVolumeRules == {[RuleDefault EXCEPT !.sound = Some("S2"), !.volume = v] :
                      v \in SrcVolumes \ {Some(10000), Some(50)}}

\* configuration files with every combination of these volumes, in the
\* global key and in at most two rules
VolumeFiles ==
    {Some([sound |-> s, volume |-> v, rules |-> r]) :
        s \in {None, Some("S1")}, v \in SrcVolumes,
        r \in {<<>>} \cup {<<a>> : a \in SrcVolumeRules}
                     \cup {<<a, b>> : a \in SrcVolumeRules, b \in SrcVolumeRules}}

-----------------------------------------------------------------------------
(* The specifications. *)

Init ==
    /\ pc = "new"
    /\ source = None
    /\ config = ConfigDefault
    /\ sound_map = {}
    /\ decodable = {}
    /\ sockbuf = <<>>
    /\ sockClosed = FALSE
    /\ buffer = <<>>
    /\ character_buf = ZeroBuf
    /\ len = 0
    /\ consumed = <<>>
    /\ data = <<>>
    /\ dirConn = "none"
    /\ mixer = <<>>
    /\ nSent = 0
    /\ nLines = 0
    /\ nQueries = 0
    /\ fault = "none"
    /\ ev = NoEvent

\* the daemon from main to the end of run
Next ==
    \/ AppNew(ConfigFiles)
    \/ AppNewErr
    \/ ConnectOk
    \/ ConnectErr
    \/ PeerSend(EventChunks, MaxEvents, 0)
    \/ PeerClose
    \/ ReadFirst
    \/ ReadRest
    \/ ReadErr
    \/ DirConnectOk
    \/ DirConnectErr
    \/ DirWriteOk
    \/ DirWriteErr
    \/ DirReadOk(Responses)
    \/ DirReadErr

Spec == Init /\ [][Next]_vars

\* the start of the daemon on any configuration file: App::new and the
\* connect of run
NextConfig ==
    \/ AppNew(VolumeFiles)
    \/ AppNewErr
    \/ ConnectOk
    \/ ConnectErr

SpecConfig == Init /\ [][NextConfig]_vars

\* the daemon on one configuration file or none, with the calls of
\* get_clients returning: connect, write! and read_to_string are blocking
\* calls of the one thread of run, and each of them, once made, returns Ok or
\* Err when the directory service answers or fails
LiveFiles ==
    {None, Some([sound |-> Some("S1"), volume |-> None, rules |-> <<SrcRuleWs3>>])}
LiveResponses == {None, Some(<<WinA>>), Some(<<WinB>>)}

NextLive ==
    \/ AppNew(LiveFiles)
    \/ AppNewErr
    \/ ConnectOk
    \/ ConnectErr
    \/ PeerSend(EventChunks, MaxEvents, 0)
    \/ PeerClose
    \/ ReadFirst
    \/ ReadRest
    \/ ReadErr
    \/ DirConnectOk
    \/ DirConnectErr
    \/ DirWriteOk
    \/ DirWriteErr
    \/ DirReadOk(LiveResponses)
    \/ DirReadErr

QueryReturns ==
    /\ WF_vars(DirConnectOk \/ DirConnectErr)
    /\ WF_vars(DirWriteOk \/ DirWriteErr)
    /\ WF_vars(DirReadOk(LiveResponses) \/ DirReadErr)

SpecLive == Init /\ [][NextLive]_vars /\ QueryReturns

\* get_event alone, on any bytes: run is connected, nothing is configured
InitDecoder ==
    /\ pc = "awaiting"
    /\ source = None
    /\ config = ConfigDefault
    /\ sound_map = {}
    /\ decodable = {}
    /\ sockbuf = <<>>
    /\ sockClosed = FALSE
    /\ buffer = <<>>
    /\ character_buf = ZeroBuf
    /\ len = 0
    /\ consumed = <<>>
    /\ data = <<>>
    /\ dirConn = "none"
    /\ mixer = <<>>
    /\ nSent = 0
    /\ nLines = 0
    /\ nQueries = 0
    /\ fault = "none"
    /\ ev = NoEvent

NextDecoder ==
    \/ PeerSend(ByteChunks, MaxWire, MaxWire)
    \/ PeerClose
    \/ ReadFirst
    \/ ReadRest
    \/ ReadErr

SpecDecoder == InitDecoder /\ [][NextDecoder]_vars

\* the rule matching of one bell event, on any rule and window list: run
\* has read "bell>>a" or "bell>>b" and get_clients is reading the response
InitMatch ==
    /\ pc = "q_read"
    /\ source = None
    /\ config \in {[sound |-> Some("S1"), volume |-> 30, rules |-> <<r>>] :
                       r \in MatchRules}
    /\ sound_map = {"S1", "S2"}
    /\ decodable = {"S1", "S2"}
    /\ sockbuf = <<>>
    /\ sockClosed = FALSE
    /\ buffer = <<>>
    /\ character_buf = ZeroBuf
    /\ len = 0
    /\ consumed = <<>>
    /\ data \in {<<97>>, <<98>>}
    /\ dirConn = "open"
    /\ mixer = <<>>
    /\ nSent = 1
    /\ nLines = 1
    /\ nQueries = 1
    /\ fault = "none"
    /\ ev = [NoEvent EXCEPT !.line = BellKind \o Delimiter \o data,
                            !.consumed = BellKind \o Delimiter \o data \o <<LF>>,
                            !.kind = "bell", !.query = "pending"]

NextMatch ==
    \/ DirReadOk(MatchResponses)
    \/ DirReadErr

SpecMatch == InitMatch /\ [][NextMatch]_vars

-----------------------------------------------------------------------------
(* What the claims speak of, stated without the code's loops.               *)

MinOf(S) == CHOOSE x \in S : \A y \in S : x <= y

\* the window the target resolves to: the first descriptor, in list order,
\* whose address is "0x" followed by the target; 0 when there is none
TargetWindow(clients, target) ==
    LET I == {i \in 1..Len(clients) : clients[i].address = AddressPrefix \o target}
    IN  IF I = {} THEN 0 ELSE MinOf(I)

\* every predicate that is present in the rule holds for window w
PredicatesHold(rule, w) ==
    /\ rule.workspace # None =>
           \/ rule.workspace[1].tag = "Id" /\ w.workspace.id = rule.workspace[1].id
           \/ rule.workspace[1].tag = "Name"
                  /\ w.workspace.name = rule.workspace[1].name
    /\ rule.floating # None => w.floating = rule.floating[1]
    /\ rule.xwayland # None => w.xwayland = rule.xwayland[1]
    /\ rule.class_regex # None => is_match(rule.class_regex[1], w.class)
    /\ rule.title_regex # None => is_match(rule.title_regex[1], w.title)

\* the rule matches the window that the target resolves to
RuleMatches(clients, target, rule) ==
    /\ TargetWindow(clients, target) # 0
    /\ PredicatesHold(rule, clients[TargetWindow(clients, target)])

\* what play_sound is called with when the outcome is sound at volume
HandOff(sound, volume) ==
    IF sound = None THEN None ELSE Some([path |-> sound[1], volume |-> volume])

\* the bell event of ev is resolved, its directory query having succeeded
BellResolved == ev.kind = "bell" /\ ev.query = "ok"

-----------------------------------------------------------------------------
(* The claims. *)

\* C1: first match wins. When the directory query of a bell event succeeds,
\* the rule adopted is the rule of lowest index among the rules that match
\* the window the target resolves to, and the sound and volume handed to
\* play_sound are that rule's alone; no rule is adopted when none matches.
C1_FirstMatchWins ==
    BellResolved =>
        LET M == {i \in 1..Len(config.rules) :
                      RuleMatches(ev.clients, data, config.rules[i])}
        IN  IF M = {} THEN ev.matched = 0
            ELSE /\ ev.matched = MinOf(M)
                 /\ ev.handoff = HandOff(config.rules[MinOf(M)].sound,
                                         config.rules[MinOf(M)].volume)

\* C1's case: the first rule fails, the second is adopted, and the third
\* matches as well, with another sound
C1_Witness ==
    /\ BellResolved
    /\ ev.matched = 2
    /\ Len(config.rules) = 3
    /\ RuleMatches(ev.clients, data, config.rules[3])
    /\ config.rules[3].sound # config.rules[2].sound

\* C2: when the target of a bell event corresponds to no window of the
\* queried list, no rule is adopted, whatever the rules are, and the outcome
\* is the global sound at the global volume.
C2_NoWindowNoMatch ==
    (BellResolved /\ TargetWindow(ev.clients, data) = 0) =>
        /\ ev.matched = 0
        /\ ev.handoff = HandOff(config.sound, config.volume)

\* C2's case: the list has windows, none is the target's, a rule without any
\* predicate is configured, and the global sound is handed to play_sound
C2_Witness ==
    /\ BellResolved
    /\ ev.clients # <<>>
    /\ TargetWindow(ev.clients, data) = 0
    /\ \E i \in 1..Len(config.rules) :
           [config.rules[i] EXCEPT !.sound = None, !.volume = 0] = RuleDefault
    /\ ev.handoff # None
    /\ ev.handoff[1].path = config.sound[1]

\* C3: match_rule is true exactly when the target resolves to a window and
\* every predicate present in the rule (workspace, floating, xwayland, class
\* pattern, title pattern) holds for that window; so an absent predicate
\* changes nothing and one present predicate that fails makes it false.
C3_MatchRuleExact ==
    BellResolved =>
        /\ \A i \in 1..Len(config.rules) :
               match_rule(ev.clients, data, config.rules[i])
                   <=> RuleMatches(ev.clients, data, config.rules[i])
        /\ ev.matched # 0
               <=> \E i \in 1..Len(config.rules) :
                       RuleMatches(ev.clients, data, config.rules[i])

\* C3's case: a rule with its five predicates present is adopted for a
\* window that is not the first of the list
C3_Witness ==
    /\ BellResolved
    /\ ev.matched = 1
    /\ TargetWindow(ev.clients, data) = 2
    /\ config.rules[1].workspace # None
    /\ config.rules[1].floating # None
    /\ config.rules[1].xwayland # None
    /\ config.rules[1].class_regex # None
    /\ config.rules[1].title_regex # None

\* a step of run that resolves the bell event being handled
Resolves == pc \in {"q_connect", "q_write", "q_read"} /\ pc' = "awaiting"

\* C4: when the rule adopted has no sound, nothing is handed to play_sound
\* and nothing is added to the mixer, also when a global sound is configured;
\* and whenever a rule is adopted and a sound is handed over, it is that
\* rule's sound (the global sound is for the events no rule is adopted for).
C4_SilentRule ==
    [][(Resolves /\ ev'.matched # 0) =>
           LET rule == config.rules[ev'.matched]
           IN  /\ rule.sound = None =>
                      /\ ev'.handoff = None
                      /\ ~ev'.played
                      /\ mixer' = mixer
                      /\ sound_map' = sound_map
               /\ ev'.handoff # None => ev'.handoff[1].path = rule.sound[1]]_vars

\* C4's case: a rule without a sound was adopted while the global sound is
\* configured, cached and decodable, and nothing was played
C4_Witness ==
    /\ BellResolved
    /\ ev.matched # 0
    /\ config.rules[ev.matched].sound = None
    /\ config.sound # None
    /\ config.sound[1] \in sound_map \cap decodable
    /\ ev.handoff = None
    /\ mixer = <<>>
    /\ pc = "awaiting"

\* a step in which get_clients fails: in connect, in write, in
\* read_to_string, or in the deserialization of the response
QueryFails ==
    \/ pc = "q_connect" /\ pc' \notin {"q_connect", "q_write"}
    \/ pc = "q_write" /\ pc' \notin {"q_write", "q_read"}
    \/ pc = "q_read" /\ pc' # "q_read" /\ ev'.query # "ok"

\* C5: when the directory query fails, no rule is adopted, the outcome is the
\* global sound (if any) at the global volume, play_sound gets just that,
\* and run is back awaiting an event.
C5_QueryFailure ==
    [][QueryFails =>
           /\ pc' = "awaiting"
           /\ ev'.matched = 0
           /\ ev'.handoff = HandOff(config.sound, config.volume)
           /\ mixer' = IF config.sound # None
                          /\ config.sound[1] \in sound_map \cap decodable
                       THEN Append(mixer, [path |-> config.sound[1],
                                           volume |-> config.volume])
                       ELSE mixer
           /\ nQueries' = nQueries
           /\ fault' = fault]_vars

\* C5's case: the response did not deserialize, a rule without predicates is
\* configured, and the global sound was played at the global volume
C5_Witness ==
    /\ ev.kind = "bell"
    /\ ev.query = "json_err"
    /\ pc = "awaiting"
    /\ \E i \in 1..Len(config.rules) :
           [config.rules[i] EXCEPT !.sound = None, !.volume = 0] = RuleDefault
    /\ config.sound # None
    /\ mixer = <<[path |-> config.sound[1], volume |-> config.volume]>>

\* the line holds ">>"
HasDelimiter(line) ==
    \E i \in 1..(Len(line) - 1) : line[i] = 62 /\ line[i + 1] = 62

\* the kind of a line that holds ">>": what comes before the first ">>"
KindOf(line) ==
    LET i == MinOf({k \in 1..(Len(line) - 1) : line[k] = 62 /\ line[k + 1] = 62})
    IN  SubSeq(line, 1, i - 1)

\* a step in which get_event returns a line
LineReturned == nLines' = nLines + 1

\* C6: a decoded line without ">>" is skipped: no directory query, nothing
\* played, no error, and run is awaiting the first byte of the next line.
C6_NoDelimiterSkipped ==
    [][(LineReturned /\ ~HasDelimiter(ev'.line)) =>
           /\ pc' = "awaiting"
           /\ fault' = fault
           /\ nQueries' = nQueries
           /\ dirConn' = "none"
           /\ mixer' = mixer
           /\ sound_map' = sound_map
           /\ ev'.handoff = None
           /\ buffer' = <<>>
           /\ consumed' = <<>>
           /\ len' = 0]_vars

\* C6's case: the line "bell", without a delimiter, was read and skipped
C6_Witness ==
    /\ ev.kind = "skip"
    /\ ev.line = BellKind
    /\ pc = "awaiting"
    /\ nLines = 1
    /\ nQueries = 0

\* C7: an event whose kind is not exactly "bell" changes nothing: no
\* directory query, nothing handed to play_sound, the sound cache and the
\* configuration as they were, and run still awaiting an event.
C7_OtherKindIgnored ==
    [][(LineReturned /\ HasDelimiter(ev'.line) /\ KindOf(ev'.line) # BellKind) =>
           /\ pc' = "awaiting"
           /\ fault' = fault
           /\ nQueries' = nQueries
           /\ dirConn' = "none"
           /\ mixer' = mixer
           /\ sound_map' = sound_map
           /\ decodable' = decodable
           /\ config' = config
           /\ data' = data
           /\ ev'.handoff = None]_vars

\* C7's case: the line "bbell>>a", whose kind ends with "bell", was ignored
C7_Witness ==
    /\ ev.kind = "ignored"
    /\ ev.line = <<98>> \o BellKind \o Delimiter \o <<97>>
    /\ pc = "awaiting"
    /\ nQueries = 0

\* the UTF-8 encoding of a code point, and of a string
Utf8Encode(cp) ==
    IF cp < 128 THEN <<cp>>
    ELSE IF cp < 2048 THEN <<192 + (cp \div 64), 128 + (cp % 64)>>
    ELSE IF cp < 65536
         THEN <<224 + (cp \div 4096), 128 + ((cp \div 64) % 64), 128 + (cp % 64)>>
    ELSE <<240 + (cp \div 262144), 128 + ((cp \div 4096) % 64),
           128 + ((cp \div 64) % 64), 128 + (cp % 64)>>

RECURSIVE Utf8EncodeAll(_)
Utf8EncodeAll(chars) ==
    IF chars = <<>> THEN <<>>
    ELSE Utf8Encode(Head(chars)) \o Utf8EncodeAll(Tail(chars))

\* "a" and characters of 2, 3 and 4 bytes: U+00E9, U+3A69, U+29A69
LineChars == {97, \hE9, \h3A69, \h29A69}

\* the lines of complete characters that fit the wire with their terminator
WellFormedLines ==
    LET all == UNION {[1..n -> LineChars] : n \in 0..(MaxWire - 1)}
    IN  {l \in {[chars |-> c, bytes |-> Utf8EncodeAll(c)] : c \in all} :
            Len(l.bytes) < MaxWire}

\* C8: when the bytes a call of get_event takes from socket2 start with
\* complete UTF-8 characters followed by 0x0A, the call returns exactly these
\* characters and has taken exactly these bytes and the terminator: it never
\* reads past the terminator of such a line, so the next call starts at the
\* first byte after it.
C8_DecoderExact ==
    \A l \in WellFormedLines :
        LET w == l.bytes \o <<LF>>
        IN  /\ ~starts_with(consumed, w)
            /\ (ev.kind # "none" /\ starts_with(ev.consumed, w)) =>
                   (ev.line = l.chars /\ ev.consumed = w)

\* C8's case: a second call of get_event has returned U+00E9 from the bytes
\* C3 A9 0A, read one by one
C8_Witness ==
    /\ nLines = 2
    /\ ev.line = <<\hE9>>
    /\ ev.consumed = <<\hC3, \hA9, LF>>
    /\ consumed = <<>>
    /\ buffer = <<>>
    /\ pc = "awaiting"

\* C9 as claimed: once a read of socket2 has returned the end of the stream,
\* run has returned (the decoder's error has ended it).  get_event does not
\* look at the count read returns: it takes the untouched 0 of character_buf
\* for a character and reads again.
C9_EofIsFatal == fault = "eof" => pc = "terminated"

\* C10: a read error of socket2, on the first byte of a character or on the
\* rest of it, ends run (terminated) without a line returned, an event
\* dispatched, a query or a sound for the bytes read so far; a failed connect
\* ends run before anything is read; and nothing happens once run has ended.
C10_ReadErrorFatal ==
    [][/\ (fault' = "read_err" /\ fault # "read_err") =>
              /\ pc = "awaiting"
              /\ pc' = "terminated"
              /\ nLines' = nLines
              /\ ev' = ev
              /\ nQueries' = nQueries
              /\ mixer' = mixer
              /\ sound_map' = sound_map
       /\ (fault' = "connect_err" /\ fault # "connect_err") =>
              /\ pc' = "terminated"
              /\ nSent' = 0
              /\ consumed' = <<>>
              /\ nLines' = 0
              /\ ev' = NoEvent
       /\ pc = "terminated" =>
              /\ pc' = "terminated"
              /\ nLines' = nLines
              /\ nQueries' = nQueries
              /\ mixer' = mixer
              /\ ev' = ev]_vars

\* C10's case: after a line was handled, the read of the second byte of the
\* next line's first character failed, and run has ended
C10_Witness ==
    /\ fault = "read_err"
    /\ pc = "terminated"
    /\ nLines = 1
    /\ consumed = <<\hC3>>
    /\ len = 2

\* a volume of [0.0, 1.0]
VolumeInRange(v) == 0 <= v /\ v <= 100

\* C11: in every reachable state the global volume and the volume of every
\* rule of the configuration the daemon runs with are within [0.0, 1.0], and
\* so is every volume handed to play_sound and every volume added to the
\* mixer.
C11_VolumesInRange ==
    /\ VolumeInRange(config.volume)
    /\ \A i \in 1..Len(config.rules) : VolumeInRange(config.rules[i].volume)
    /\ ev.handoff # None => VolumeInRange(ev.handoff[1].volume)
    /\ \A k \in 1..Len(mixer) : VolumeInRange(mixer[k].volume)

\* C11's case: the configuration gives a global volume and rule volumes, and
\* two bell events were played, one at the volume of a rule and one at the
\* global volume
C11_Witness ==
    /\ source # None
    /\ source[1].volume = Some(30)
    /\ Len(mixer) = 2
    /\ {mixer[1].volume, mixer[2].volume} = {30, 80}

\* the volumes a configuration file gives, in its global key and its rules
GivenVolumes(raw) ==
    {raw.volume[i] : i \in 1..Len(raw.volume)}
        \cup UNION {{raw.rules[k].volume[i] : i \in 1..Len(raw.rules[k].volume)} :
                        k \in 1..Len(raw.rules)}

\* C12: loading a configuration file fails as a whole (an error, and no
\* configuration: App::new falls back to Config::default()) when the global
\* volume or the volume of any rule is outside [0.0, 1.0]; when every volume
\* given is within [0.0, 1.0], 0.0 and 1.0 included, the load succeeds and the
\* configuration has the volumes, the sound and the rules of the file.
C12_LoadRejectsVolume ==
    source # None =>
        LET raw == source[1]
        IN  IF \E v \in GivenVolumes(raw) : ~VolumeInRange(v)
            THEN /\ load_config(source) = None
                 /\ config = ConfigDefault
            ELSE /\ load_config(source) = Some(config)
                 /\ config.sound = raw.sound
                 /\ raw.volume # None => config.volume = raw.volume[1]
                 /\ Len(config.rules) = Len(raw.rules)
                 /\ \A k \in 1..Len(raw.rules) :
                        raw.rules[k].volume # None =>
                            config.rules[k].volume = raw.rules[k].volume[1]

\* C12's case: a file whose global volume is 1.0 and whose first rule has
\* volume 0.0 is rejected for the 1.01 of its second rule
C12_Witness ==
    /\ source # None
    /\ source[1].volume = Some(100)
    /\ Len(source[1].rules) = 2
    /\ source[1].rules[1].volume = Some(0)
    /\ source[1].rules[2].volume = Some(101)
    /\ config = ConfigDefault
    /\ pc = "connect"

\* the configuration the daemon runs with does not come from a file that
\* gives the global volume
GlobalVolumeNotGiven == load_config(source) = None \/ source[1].volume = None

\* C13 as claimed: when a bell event is resolved, the volume of its outcome
\* is 1.0 if it is a volume the configuration does not give, be it the global
\* volume or the volume of the rule adopted.  Config::default(), which
\* App::new takes when the load fails, has the volume 0.0 of f32::default().
C13_UnspecifiedVolumeIsOne ==
    (ev.kind = "bell" /\ ev.volume # None) =>
        IF ev.matched = 0
        THEN GlobalVolumeNotGiven => ev.volume[1] = 100
        ELSE source[1].rules[ev.matched].volume = None => ev.volume[1] = 100

\* C14: a workspace predicate written as an integer is compared with the
\* window's workspace id only, and one written as a string with the window's
\* workspace name only.  For the window w the target resolves to, a rule with
\* a workspace predicate matches exactly when its other predicates hold and
\* the id of w (integer) or the name of w (string) equals the configured
\* value; and the answer of match_rule stays the same when the field that is
\* not compared (the name for an integer, the id for a string) is changed.
C14_WorkspaceByShape ==
    (/\ BellResolved
     /\ Len(config.rules) = 1
     /\ config.rules[1].workspace # None
     /\ TargetWindow(ev.clients, data) # 0) =>
        LET t == TargetWindow(ev.clients, data)
            w == ev.clients[t]
            r == config.rules[1]
            ws == r.workspace[1]
            others == PredicatesHold([r EXCEPT !.workspace = None], w)
        IN  IF ws.tag = "Id"
            THEN /\ (ev.matched = 1) <=> (others /\ w.workspace.id = ws.id)
                 /\ \A n \in {Str3, StrFoo, <<>>} :
                        match_rule([ev.clients EXCEPT ![t].workspace.name = n],
                                   data, r) = (ev.matched = 1)
            ELSE /\ (ev.matched = 1) <=> (others /\ w.workspace.name = ws.name)
                 /\ \A i \in {0, 3, 4} :
                        match_rule([ev.clients EXCEPT ![t].workspace.id = i],
                                   data, r) = (ev.matched = 1)

\* C14's case: the rule workspace = "3" is adopted for a window of the
\* workspace of id 4 and name "3"
C14_Witness ==
    /\ BellResolved
    /\ config.rules[1].workspace = Some(WorkspaceName(Str3))
    /\ TargetWindow(ev.clients, data) = 1
    /\ ev.clients[1].workspace = [id |-> 4, name |-> Str3]
    /\ ev.matched = 1

\* the address begins with "0x"
BeginsWith0x(address) == Len(address) >= 2 /\ SubSeq(address, 1, 2) = <<48, 120>>

\* the address begins with "0x" and its remainder is the payload
Resolvable(address, payload) ==
    /\ BeginsWith0x(address)
    /\ SubSeq(address, 3, Len(address)) = payload

\* C15: the target of a bell event resolves to the first descriptor of the
\* window list whose address begins with "0x" and continues with exactly the
\* payload, and to none when there is no such descriptor: a descriptor
\* without "0x" is never the one resolved, and the rule is matched against
\* the first one that resolves, not against a later one.
C15_TargetResolution ==
    BellResolved =>
        LET c == FindClient(ev.clients, data, 1)
            R == {i \in 1..Len(ev.clients) : Resolvable(ev.clients[i].address, data)}
        IN  /\ c = (IF R = {} THEN 0 ELSE MinOf(R))
            /\ \A i \in 1..Len(ev.clients) :
                   ~BeginsWith0x(ev.clients[i].address) => c # i
            /\ Len(config.rules) = 1 =>
                   ((ev.matched = 1) <=>
                        (c # 0 /\ PredicatesHold(config.rules[1], ev.clients[c])))

\* C15's case: the first descriptor has the payload as its whole address, the
\* second has "0x" before it, and the rule is adopted for the second
C15_Witness ==
    /\ BellResolved
    /\ Len(ev.clients) = 2
    /\ ev.clients[1].address = data
    /\ ev.clients[2].address = <<48, 120>> \o data
    /\ ev.clients[2].floating # ev.clients[1].floating
    /\ config.rules[1].floating = Some(ev.clients[2].floating)
    /\ ev.matched = 1

\* the bytes of a character by its first byte: 110xxxxx, 1110xxxx, 1111xxxx
GroupedLen(b) ==
    IF b \in 192..223 THEN 2
    ELSE IF b \in 224..239 THEN 3
    ELSE IF b \in 240..255 THEN 4
    ELSE 1

\* C16 as claimed: when get_event has read the first byte of a character of
\* more than one byte, the bytes it takes for the character (len) are 2 for
\* 110xxxxx, 3 for 1110xxxx and 4 for 1111xxxx.  The first arm of the match,
\* x & 0xC0 == 0xC0, holds for every byte from 0xC0 up, so len is 2 for all
\* of them.
C16_CharacterGrouping == len # 0 => len = GroupedLen(character_buf[1])

\* C17: every read get_event issues to socket2 asks for at least one byte.
\* Whenever run waits in get_event, on any bytes, the slice of the read it
\* issues next has a length of 1 (the first byte of a character) or of
\* len - 1 >= 1 (the rest of it): the second read is not issued for a
\* character of one byte.
C17_NoZeroLengthRead ==
    pc = "awaiting" =>
        /\ ReadRequest >= 1
        /\ len # 1
        /\ len = 0 => ReadRequest = 1

\* C17's case: a character of one byte was read and appended, more bytes are
\* in socket2, and the next read is the read of a first byte
C17_Witness ==
    /\ pc = "awaiting"
    /\ buffer = <<97>>
    /\ consumed = <<97>>
    /\ len = 0
    /\ sockbuf # <<>>
    /\ ReadRequest = 1

\* C18: once socket2 is connected, run ends (terminated) only from
\* get_event, by the error of a read; a line without delimiter, an event of
\* another kind, and a bell event however it is resolved (query failed, no
\* rule matched, sound not cached, sound that does not decode) leave run
\* awaiting the next event; run never connects socket2 again, and terminated
\* is final.
C18_TerminatedOnlyByDecoder ==
    [][/\ (Connected /\ pc' = "terminated") =>
              (pc = "awaiting" /\ fault' = "read_err" /\ nLines' = nLines)
       /\ Connected => pc' \in {"awaiting", "q_connect", "q_write", "q_read",
                                "terminated"}
       /\ nLines' # nLines =>
              pc' = (IF ev'.kind = "bell" THEN "q_connect" ELSE "awaiting")
       /\ (ev.query = "pending" /\ ev'.query # "pending") => pc' = "awaiting"
       /\ pc = "terminated" => pc' = "terminated"]_vars

\* C18's case: two events were handled, the second a bell event whose sound
\* was handed to play_sound and not played (not cached, or not decodable),
\* and then a read of socket2 failed
C18_Witness ==
    /\ pc = "terminated"
    /\ fault = "read_err"
    /\ nLines = 2
    /\ ev.kind = "bell"
    /\ ev.handoff # None
    /\ ~ev.played

\* the states of run inside HyprClient::get_clients
InQuery == pc \in {"q_connect", "q_write", "q_read"}

\* C19: every bell event causes exactly one directory query.  get_clients is
\* called exactly in the step in which a line of kind "bell" is returned,
\* once, whatever config.rules holds, and in no other step: not for a line of
\* another kind or without delimiter, and not again when the query fails.
\* The query only moves forward (connect, write, read) and its end, success
\* or failure, resolves the event; a failed query leaves the event without
\* window list and without rule, whatever an earlier query returned.
C19_OneQueryPerBell ==
    [][/\ (nQueries' # nQueries) <=> (nLines' = nLines + 1 /\ ev'.kind = "bell")
       /\ nQueries' \in {nQueries, nQueries + 1}
       /\ (nLines' # nLines /\ ev'.kind = "bell") =>
              (pc' = "q_connect" /\ ev'.query = "pending" /\ ev'.clients = <<>>)
       /\ (InQuery /\ pc' # pc) =>
              \/ pc = "q_connect" /\ pc' = "q_write"
              \/ pc = "q_write" /\ pc' = "q_read"
              \/ pc' = "awaiting" /\ ev.query = "pending" /\ ev'.query # "pending"
       /\ ev'.query \in {"connect_err", "write_err", "read_err", "json_err"} =>
              (ev'.clients = <<>> /\ ev'.matched = 0)]_vars

\* C19's case: with an empty rule list, a second bell event has caused a
\* second query after the first one succeeded, and the second query failed
\* and was not repeated
C19_Witness ==
    /\ config.rules = <<>>
    /\ nLines = 2
    /\ nQueries = 2
    /\ ev.kind = "bell"
    /\ ev.query = "write_err"
    /\ pc = "awaiting"
    /\ mixer # <<>>

\* C20: events are handled one at a time and in the order of the stream.
\* While run handles a bell event (inside get_clients) nothing is read from
\* socket2: the bytes the peer has written stay there and get_event's locals
\* do not move.  A hand-off to play_sound happens only in the step that
\* resolves the bell event being handled, at most once for it, and what is
\* played is added after everything played for earlier events.
C20_OneAtATime ==
    [][/\ InQuery =>
              /\ Len(sockbuf') >= Len(sockbuf)
              /\ SubSeq(sockbuf', 1, Len(sockbuf)) = sockbuf
              /\ <<buffer, character_buf, len, consumed, nLines>>' =
                     <<buffer, character_buf, len, consumed, nLines>>
       /\ ev'.handoff # ev.handoff =>
              \/ ev'.handoff = None /\ nLines' = nLines + 1
              \/ /\ InQuery
                 /\ pc' = "awaiting"
                 /\ ev.query = "pending"
                 /\ ev'.query # "pending"
                 /\ ev'.line = ev.line
       /\ mixer' # mixer =>
              /\ InQuery
              /\ ev.query = "pending"
              /\ ev'.handoff # None
              /\ mixer' = Append(mixer, ev'.handoff[1])
       /\ Len(mixer') <= nQueries']_vars

\* C20's case: "bell>>a" and then "bell>>b" were handled, the first played
\* the sound of a rule and the second the global sound, in this order
C20_Witness ==
    /\ Len(mixer) = 2
    /\ mixer[1].path = "S2"
    /\ mixer[2].path = "S1"
    /\ ev.line = BellKind \o Delimiter \o <<98>>
    /\ nLines = 2
    /\ pc = "awaiting"

\* C21: every directory query has a connection of its own and goes connect,
\* write, read, close.  A connection is opened only by the connect of
\* get_clients and only while none is open, so at most one is open at any
\* time; it is open exactly while get_clients writes and reads; it is closed
\* in the step in which get_clients returns, before the rules are evaluated
\* (the event is resolved with the connection closed) and before anything of
\* the next event is read.  socket2 belongs to run: once connected, run keeps
\* it until it terminates.
C21_QueryConnection ==
    [][/\ dirConn = "open" <=> pc \in {"q_write", "q_read"}
       /\ (dirConn = "none" /\ dirConn' = "open") =>
              (pc = "q_connect" /\ pc' = "q_write")
       /\ (dirConn = "open" /\ pc' # pc) =>
              \/ pc = "q_write" /\ pc' = "q_read" /\ dirConn' = "open"
              \/ pc' = "awaiting" /\ dirConn' = "none"
       /\ (ev.query = "pending" /\ ev'.query # "pending") => dirConn' = "none"
       /\ (nLines' # nLines \/ consumed' # consumed \/ buffer' # buffer) =>
              (dirConn = "none" /\ dirConn' = "none")
       /\ (Connected /\ pc' # "terminated") => Connected']_vars

\* C21's case: the second query of an execution reads its response on its
\* own connection, the connection of the first query having been closed when
\* the first bell event was resolved
C21_Witness ==
    /\ nQueries = 2
    /\ nLines = 2
    /\ pc = "q_read"
    /\ dirConn = "open"
    /\ ev.query = "pending"

\* C22: when run handles a bell event and the calls of get_clients return,
\* the event is eventually resolved and run is awaiting the next event again;
\* and no step takes run from the handling of a bell event to terminated.
C22_BellResolves ==
    /\ InQuery ~> (pc = "awaiting" /\ ev.kind = "bell" /\ ev.query # "pending")
    /\ [][InQuery => pc' # "terminated"]_vars

\* C22's case: a second bell event was handled, its query failed on the
\* read, and run is awaiting an event again
C22_Witness ==
    /\ nQueries = 2
    /\ ev.kind = "bell"
    /\ ev.query = "read_err"
    /\ pc = "awaiting"

\* the sound of the outcome of the event of ev
OutcomeSound == IF ev.handoff = None THEN None ELSE Some(ev.handoff[1].path)

\* C23: the sound and the volume of the outcome of a bell event come from
\* the same source: the sound and the volume of the rule adopted, or, when no
\* rule is adopted, the global sound and the global volume.  What is handed
\* to play_sound has the volume of the outcome, and the pair is the pair of
\* one rule or the global pair, never a sound of one with the volume of
\* another.
C23_SameSource ==
    (ev.kind = "bell" /\ ev.query # "pending") =>
        /\ ev.volume # None
        /\ ev.handoff # None => ev.handoff[1].volume = ev.volume[1]
        /\ IF ev.matched = 0
           THEN OutcomeSound = config.sound /\ ev.volume[1] = config.volume
           ELSE /\ OutcomeSound = config.rules[ev.matched].sound
                /\ ev.volume[1] = config.rules[ev.matched].volume
        /\ <<OutcomeSound, ev.volume[1]>> \in
               {<<config.sound, config.volume>>}
                   \cup {<<config.rules[i].sound, config.rules[i].volume>> :
                             i \in 1..Len(config.rules)}

\* C23's case: the global sound is S1 at volume 0.3, and the rule adopted
\* gives S2 at volume 0.8: S2 is played at 0.8
C23_Witness ==
    /\ ev.kind = "bell"
    /\ ev.matched # 0
    /\ config.sound = Some("S1")
    /\ config.volume = 30
    /\ ev.handoff = Some([path |-> "S2", volume |-> 80])
    /\ ev.played
    /\ mixer = <<[path |-> "S2", volume |-> 80]>>

\* a step that resolves the bell event being handled
BellResolution == ev.query = "pending" /\ ev'.query # "pending"

\* C24: after App::new the sound cache only shrinks.  A path leaves it
\* exactly in the step in which it is handed to play_sound while it is cached
\* and its data does not decode, and then nothing is played; a path that is
\* not cached when it is handed to play_sound is not played, is not loaded,
\* and run goes on without an error; whatever is added to the mixer was in
\* the cache.
C24_CacheOnlyShrinks ==
    [][pc # "new" =>
           /\ sound_map' \subseteq sound_map
           /\ sound_map' # sound_map =>
                  /\ BellResolution
                  /\ ev'.handoff # None
                  /\ ev'.handoff[1].path \in sound_map
                  /\ ev'.handoff[1].path \notin decodable
                  /\ sound_map' = sound_map \ {ev'.handoff[1].path}
                  /\ mixer' = mixer
           /\ (BellResolution /\ ev'.handoff # None) =>
                  LET p == ev'.handoff[1].path
                  IN  /\ (p \in sound_map /\ p \notin decodable) =>
                             (p \notin sound_map' /\ mixer' = mixer)
                      /\ p \notin sound_map =>
                             /\ mixer' = mixer
                             /\ sound_map' = sound_map
                             /\ pc' = "awaiting"
                             /\ fault' = fault
                      /\ (p \in sound_map /\ p \in decodable) =>
                             /\ sound_map' = sound_map
                             /\ mixer' = Append(mixer, ev'.handoff[1])
           /\ mixer' # mixer => mixer'[Len(mixer')].path \in sound_map]_vars

\* C24's case: the first bell event played S2; the sound S1 of the second
\* was cached, did not decode, and was removed from the cache, which holds S2
\* alone now, and nothing was played for it
C24_Witness ==
    /\ nQueries = 2
    /\ ev.kind = "bell"
    /\ ev.handoff # None
    /\ ev.handoff[1].path = "S1"
    /\ ev.removed
    /\ ~ev.played
    /\ sound_map = {"S2"}
    /\ Len(mixer) = 1
    /\ mixer[1].path = "S2"
    /\ pc = "awaiting"

\* the position in bytes s, from i on, of the first 0x0A that starts a
\* character, a first byte with its two high bits set taking the next byte
\* with it; 0 when there is none
RECURSIVE LineEnd(_, _)
LineEnd(s, i) ==
    IF i > Len(s) THEN 0
    ELSE IF s[i] = 10 THEN i
    ELSE IF s[i] >= 192 THEN LineEnd(s, i + 2)
    ELSE LineEnd(s, i + 1)

\* C25: a 0x0A ends the line only where get_event reads it as the first byte
\* of a character.  The bytes a call has taken when it returns end with the
\* first 0x0A that starts a character, a 0x0A directly after a first byte
\* with the two high bits set being part of that character; such a 0x0A is
\* in the line returned, which is the lossy decoding of all the bytes before
\* the final 0x0A; and while the call has not returned, the bytes taken hold
\* no 0x0A that starts a character.
C25_LineFeedInsideCharacter ==
    /\ LineEnd(consumed, 1) = 0
    /\ ev.kind # "none" =>
           /\ LineEnd(ev.consumed, 1) = Len(ev.consumed)
           /\ ev.line = from_utf8_lossy(SubSeq(ev.consumed, 1, Len(ev.consumed) - 1))
           /\ \A i \in 2..(Len(ev.consumed) - 1) :
                  (ev.consumed[i] = 10 /\ ev.consumed[i - 1] \in 192..255
                   /\ LineEnd(ev.consumed, 1) > i) =>
                      \E k \in 1..Len(ev.line) : ev.line[k] = 10

\* C25's case: the bytes C3 0A 61 0A are returned as one line, U+FFFD for
\* the C3 without continuation, then the 0x0A and "a"
C25_Witness ==
    /\ ev.consumed = <<\hC3, LF, 97, LF>>
    /\ ev.line = <<REPLACEMENT_CHARACTER, LF, 97>>
    /\ nLines = 1
    /\ consumed = <<>>
    /\ pc = "awaiting"

\* the daemon runs after a load of the configuration that failed
LoadFailed == pc \notin {"new", "exited"} /\ load_config(source) = None

\* C26: when the configuration file cannot be read or is rejected, App::new
\* still returns Ok and run starts, with a configuration without global
\* sound and without rules, which stays so; in such an execution no rule is
\* adopted, nothing is handed to play_sound and nothing is played for any
\* bell event, whatever the window list, while each bell event still calls
\* get_clients and is resolved.
C26_FallbackConfiguration ==
    [][/\ (pc = "new" /\ pc' = "connect" /\ load_config(source') = None) =>
              (config'.sound = None /\ config'.rules = <<>>)
       /\ LoadFailed =>
              /\ config.sound = None
              /\ config.rules = <<>>
              /\ config' = config
              /\ source' = source
              /\ ev'.matched = 0
              /\ ev'.handoff = None
              /\ ~ev'.played
              /\ mixer' = <<>>
              /\ (nLines' = nLines + 1 /\ ev'.kind = "bell") =>
                     (nQueries' = nQueries + 1 /\ pc' = "q_connect")
              /\ BellResolution => pc' = "awaiting"]_vars

\* C26's case: the file gives a global sound and is rejected for its volume
\* of -0.1; two bell events were handled, the query of the second returned
\* windows, and nothing was handed to play_sound
C26_Witness ==
    /\ source # None
    /\ source[1].sound = Some("S1")
    /\ source[1].volume = Some(-10)
    /\ LoadFailed
    /\ nQueries = 2
    /\ ev.kind = "bell"
    /\ ev.query = "ok"
    /\ ev.clients # <<>>
    /\ ev.handoff = None
    /\ mixer = <<>>
    /\ pc = "awaiting"

=============================================================================
